---- MODULE Spec2Model ----
(***************************************************************************)
(* Model of the import path of database_setup.py (create_database,         *)
(* import_processed_data) and of the analysis functions of                 *)
(* sentiment_analyzer.py (clean_tweet, analyze_sentiment_textblob,         *)
(* analyze_sentiment_vader, extract_mental_health_terms,                   *)
(* process_tweet_file) and of the collection loop of                       *)
(* twitter_data_collector.py (collect_mental_health_tweets).               *)
(*                                                                         *)
(* The store is the SQLite database that create_database() creates.  A     *)
(* connection has a committed state and a view that also holds the writes  *)
(* of the open transaction; pandas' DataFrame.to_sql on a sqlite3          *)
(* connection inserts the frame's columns by name inside one transaction:  *)
(* it commits on success and rolls the connection back on any error.       *)
(***************************************************************************)
EXTENDS Integers, Sequences, FiniteSets, TLC

VARIABLES
    committed,  \* the tables as committed to the database file
    conn,       \* the tables as the connection reads them (with its open transaction)
    csv_file,   \* the file of the current or last import_processed_data call
    pc,         \* "idle", "selected" (call pending) or "returned"
    ret,        \* the value the last call returned
    error,      \* the exception the last call swallowed, or "none"
    step,       \* the step of the last call that raised, or "done"
    before,     \* the store when the last call started
    rel,        \* how the file of the last call relates to the file of the call before
    total_imported, \* the running total of import_all_processed_data
    tweet,      \* the input of clean_tweet
    cleaned,    \* clean_tweet(tweet)
    recleaned,  \* clean_tweet(cleaned)
    cpc,        \* "raw", "cleaned" or "recleaned"
    score,      \* what the scoring library answered, in hundredths
    scorer,     \* "textblob" or "vader" once a category was derived
    category,   \* the sentiment_category derived from score
    tag_text,   \* the text handed to extract_mental_health_terms
    vocabulary, \* the list of terms handed to extract_mental_health_terms
    found_terms,\* what extract_mental_health_terms returned
    tpc,        \* "text" or "tagged"
    json_file,  \* the tweets of the file handed to process_tweet_file
    df,         \* the rows of the frame process_tweet_file built
    csv_written,\* whether process_tweet_file wrote its CSV file
    ppc,        \* "loaded" or "returned"
    tweets_per_keyword, \* the argument of collect_mental_health_tweets
    keyword_index,      \* the position of the loop over the keywords
    collected,  \* the tweets counted for the current keyword
    cursor,     \* the pagination cursor of the next request
    all_tweets, \* the tweets collected so far
    kpc         \* "while" (the loop test is next), "request" or "done"

vars == <<committed, conn, csv_file, pc, ret, error, step, before, rel,
          total_imported,
          tweet, cleaned, recleaned, cpc,
          score, scorer, category,
          tag_text, vocabulary, found_terms, tpc,
          json_file, df, csv_written, ppc,
          tweets_per_keyword, keyword_index, collected, cursor, all_tweets,
          kpc>>

dbvars ==
    <<committed, conn, csv_file, pc, ret, error, step, before, rel,
      total_imported>>

cleanvars == <<tweet, cleaned, recleaned, cpc>>

scorevars == <<score, scorer, category>>

tagvars == <<tag_text, vocabulary, found_terms, tpc>>

procvars == <<json_file, df, csv_written, ppc>>

collectvars ==
    <<tweets_per_keyword, keyword_index, collected, cursor, all_tweets, kpc>>

analysisvars == <<scorevars, tagvars, procvars, collectvars>>

(***************************************************************************)
(* Bounds of the model.                                                    *)
(***************************************************************************)
MaxRows == 2

MaxStoredRows == 4

MaxPieces == 4

MaxTagPieces == 3

\* the largest tweets_per_keyword, the most instructions of a response and
\* the most entries of an instruction
MaxTarget == 2

MaxInstructions == 2

MaxEntries == 2

(***************************************************************************)
(* Values of CSV cells.  pandas reads an empty text cell as NaN; a numeric *)
(* cell is modelled as <<>> (NaN) or <<n>>.                                *)
(***************************************************************************)
NaN == "NaN"

Range(s) == {s[i] : i \in 1..Len(s)}

RECURSIVE Flatten(_)
Flatten(ss) == IF ss = <<>> THEN <<>> ELSE Head(ss) \o Flatten(Tail(ss))

CountOf(s, x) == Cardinality({i \in 1..Len(s) : s[i] = x})

(***************************************************************************)
(* create_database: the four tables and their declared columns.            *)
(***************************************************************************)
\* the tweets table with its text column named as import_processed_data
\* names it
TweetsTableColumnsAsText ==
    {"tweet_id", "text", "cleaned_text", "created_at", "collected_at",
     "search_keyword", "username", "retweet_count", "favorite_count"}

TweetsTableColumns ==
    {"tweet_id", "tweet_text", "cleaned_text", "created_at", "collected_at",
     "search_keyword", "username", "retweet_count", "favorite_count"}

SentimentTableColumns ==
    {"tweet_id", "textblob_polarity", "textblob_subjectivity",
     "textblob_category", "vader_compound", "vader_positive",
     "vader_negative", "vader_neutral", "vader_category",
     "contains_mental_health_term", "mental_health_terms"}

UserMetricsTableColumns ==
    {"username", "tweet_count", "avg_textblob_polarity", "avg_vader_compound",
     "mental_health_tweet_count", "avg_engagement"}

\* The database create_database() returns on a fresh file: four empty tables.
\* tweets, tweet_sentiment and user_metrics are sequences of rows in rowid
\* order; mental_health_terms is the set of its rows (term_text is UNIQUE).
create_database ==
    [tweets |-> <<>>, tweet_sentiment |-> <<>>,
     mental_health_terms |-> {}, user_metrics |-> <<>>]

(***************************************************************************)
(* The frames import_processed_data builds.                                *)
(***************************************************************************)
required_columns ==
    <<"tweet_id", "text", "cleaned_text", "created_at", "collected_at",
      "search_keyword", "textblob_polarity", "textblob_subjectivity",
      "textblob_category", "vader_compound", "vader_positive",
      "vader_negative", "vader_neutral", "vader_category",
      "mental_health_terms", "contains_mental_health_term">>

TweetsFrameColumns ==
    {"tweet_id", "text", "cleaned_text", "created_at", "collected_at",
     "search_keyword", "username", "retweet_count", "favorite_count"}

SentimentFrameColumns ==
    {"tweet_id", "textblob_polarity", "textblob_subjectivity",
     "textblob_category", "vader_compound", "vader_positive",
     "vader_negative", "vader_neutral", "vader_category",
     "contains_mental_health_term", "mental_health_terms"}

UserMetricsFrameColumns ==
    {"username", "tweet_count", "avg_textblob_polarity", "avg_vader_compound",
     "mental_health_tweet_count", "avg_engagement"}

(***************************************************************************)
(* CSV files handed to import_processed_data.  A file is its header (the   *)
(* set of column names) and its rows; a row holds one cell per modelled    *)
(* column, read only when the header names the column.  The id cell stands *)
(* for the cell of whichever of "id" / "tweet_id" the header names.        *)
(***************************************************************************)
TermsCell(kind, terms) == [kind |-> kind, terms |-> terms]

UserCell(kind, username) == [kind |-> kind, username |-> username]

\* a row as process_tweet_file writes it has a cleaned text and sentiment
\* values (a polarity in hundredths)
Row(id, username, user, terms, flag, rt, fav) ==
    [id |-> id, username |-> username, user |-> user,
     mental_health_terms |-> terms, contains_mental_health_term |-> flag,
     retweet_count |-> rt, favorite_count |-> fav,
     cleaned_text |-> "text", textblob_polarity |-> <<50>>,
     textblob_category |-> "positive"]

\* a well-formed post
RowWellFormed ==
    Row("t1", "alice", UserCell("json", "alice"),
        TermsCell("list", <<"anxiety">>), 1, <<1>>, <<1>>)

\* a post with no retweet count
RowNoRetweet ==
    Row("t2", "alice", UserCell("json", "alice"),
        TermsCell("list", <<"stress", "anxiety">>), 1, <<>>, <<0>>)

\* a post with no identifier
RowNoId ==
    Row(NaN, "bob", UserCell("json", "bob"),
        TermsCell("list", <<"stress">>), 1, <<0>>, <<0>>)

\* a post with no author, no term list, no counters, no cleaned text and no
\* sentiment values
RowBare ==
    [Row("t3", NaN, UserCell("nan", ""), TermsCell("nan", <<>>), 0, <<>>, <<>>)
     EXCEPT !.cleaned_text = NaN, !.textblob_polarity = <<>>,
            !.textblob_category = NaN]

\* a post whose term list starts with '[' and does not parse
RowMalformedTerms ==
    Row("t4", "bob", UserCell("json", "bob"),
        TermsCell("malformed", <<>>), 0, <<0>>, <<0>>)

\* a post whose term list is a string that is no list
RowTextTerms ==
    Row("t5", "bob", UserCell("json", "bob"),
        TermsCell("text", <<>>), 0, <<0>>, <<0>>)

\* a post whose user encoding does not parse
RowMalformedUser ==
    Row("t6", NaN, UserCell("malformed", ""),
        TermsCell("list", <<"stress">>), 1, <<0>>, <<0>>)

\* a post with terms and no author
RowNoAuthor ==
    Row("t7", NaN, UserCell("nan", ""),
        TermsCell("list", <<"stress">>), 1, <<0>>, <<0>>)

RowPool == {RowWellFormed, RowNoRetweet, RowNoId, RowBare}

AllColumns ==
    Range(required_columns) \cup {"username", "retweet_count", "favorite_count"}

DefaultedColumns ==
    {"text", "cleaned_text", "created_at", "collected_at", "search_keyword",
     "textblob_polarity", "textblob_subjectivity", "textblob_category",
     "vader_compound", "vader_positive", "vader_negative", "vader_neutral",
     "vader_category", "contains_mental_health_term"}

UserHeader == (AllColumns \ {"username"}) \cup {"user"}

Headers ==
    {AllColumns,
     (AllColumns \ {"tweet_id"}) \cup {"id"},
     AllColumns \ {"tweet_id"},
     UserHeader,
     AllColumns \ {"username"},
     AllColumns \ {"retweet_count"},
     AllColumns \ {"mental_health_terms"},
     AllColumns \ DefaultedColumns}

RowSeqs == UNION {[1..n -> RowPool] : n \in 0..MaxRows}

\* the three-record batch of the end-to-end scenario
EndToEndFile ==
    [cols |-> AllColumns, rows |-> <<RowWellFormed, RowNoRetweet, RowNoId>>]

\* batches with one defective field next to a well-formed post
MalformedTermsFile ==
    [cols |-> AllColumns, rows |-> <<RowWellFormed, RowMalformedTerms>>]

TextTermsFile ==
    [cols |-> AllColumns, rows |-> <<RowWellFormed, RowTextTerms>>]

MalformedUserFile ==
    [cols |-> UserHeader, rows |-> <<RowWellFormed, RowMalformedUser>>]

NoAuthorFile ==
    [cols |-> AllColumns, rows |-> <<RowWellFormed, RowNoAuthor>>]

NoUserFile ==
    [cols |-> UserHeader, rows |-> <<RowWellFormed, RowNoAuthor>>]

\* a file with no columns to parse
UnreadableFile == [cols |-> {}, rows |-> <<>>]

CsvFiles ==
    {[cols |-> h, rows |-> r] : h \in Headers, r \in RowSeqs}
    \cup {EndToEndFile, MalformedTermsFile, TextTermsFile, MalformedUserFile,
          NoAuthorFile, NoUserFile, UnreadableFile}

NoFile == [cols |-> {}, rows |-> <<>>]

(***************************************************************************)
(* import_processed_data, step by step.                                    *)
(***************************************************************************)
\* line 105: read_csv raises on a file it cannot parse
ReadCsvRaises(f) == f.cols = {}

\* lines 108-109: an "id" column is renamed to "tweet_id"
RenamedColumns(cols) ==
    IF "id" \in cols THEN (cols \ {"id"}) \cup {"tweet_id"} ELSE cols

\* lines 118-136: the first required column whose defaulting raises.  Only
\* mental_health_terms does: its default reads the column that is absent.
DefaultingRaises(cols) == "mental_health_terms" \notin RenamedColumns(cols)

\* lines 120-121: without an id column the row index becomes the tweet_id
TweetIdOf(f, i) ==
    IF "tweet_id" \in RenamedColumns(f.cols) THEN f.rows[i].id
    ELSE ToString(i - 1)

\* json.dumps / json.loads of a list of terms
JsonDumps(terms) == [json |-> terms]

JsonLoads(text) == text.json

\* lines 139-143: a cell that is a string starting with '[' is eval'ed (which
\* raises on a malformed literal) and dumped; any other cell becomes '[]'
EvalRaises(cell) == cell.kind = "malformed"

ConvertTerms(cell) ==
    IF cell.kind = "list" THEN JsonDumps(cell.terms) ELSE JsonDumps(<<>>)

\* lines 146-153: username from the user column; one cell that does not parse
\* sends the whole column to '' (the try encloses the apply)
UsernameFromUser(rows, i) ==
    IF \E j \in 1..Len(rows) : rows[j].user.kind = "malformed" THEN ""
    ELSE IF rows[i].user.kind = "json" THEN rows[i].user.username
    ELSE ""

HasUsername(cols) == "username" \in cols \/ "user" \in cols

UsernameOf(f, i) ==
    IF "username" \in f.cols THEN f.rows[i].username
    ELSE UsernameFromUser(f.rows, i)

\* lines 160-168: a counter column missing from the source is 0 in tweets_df
CounterOf(f, i, col) == IF col \in f.cols THEN f.rows[i][col] ELSE <<0>>

\* lines 133-134
FlagOf(f, i) ==
    IF "contains_mental_health_term" \in f.cols
    THEN f.rows[i].contains_mental_health_term
    ELSE 0

\* lines 135-136: a text column missing from the source is ''
CleanedTextOf(f, i) ==
    IF "cleaned_text" \in f.cols THEN f.rows[i].cleaned_text ELSE ""

\* lines 126-128: a score column missing from the source is 0.0
PolarityOf(f, i) ==
    IF "textblob_polarity" \in f.cols THEN f.rows[i].textblob_polarity
    ELSE <<0>>

\* lines 129-130: a category column missing from the source is 'neutral'
CategoryOf(f, i) ==
    IF "textblob_category" \in f.cols THEN f.rows[i].textblob_category
    ELSE "neutral"

\* lines 156-168: tweets_df (the raw text, the timestamps and the keyword
\* carry no control flow and are left out of the rows)
TweetsFrame(f) ==
    [i \in 1..Len(f.rows) |->
        [tweet_id |-> TweetIdOf(f, i), username |-> UsernameOf(f, i),
         cleaned_text |-> CleanedTextOf(f, i),
         retweet_count |-> CounterOf(f, i, "retweet_count"),
         favorite_count |-> CounterOf(f, i, "favorite_count")]]

\* lines 173-176: sentiment_df
SentimentFrame(f) ==
    [i \in 1..Len(f.rows) |->
        [tweet_id |-> TweetIdOf(f, i),
         textblob_polarity |-> PolarityOf(f, i),
         textblob_category |-> CategoryOf(f, i),
         contains_mental_health_term |-> FlagOf(f, i),
         mental_health_terms |-> ConvertTerms(f.rows[i].mental_health_terms)]]

\* lines 183-190: all_terms
AllTerms(f) ==
    Flatten([i \in 1..Len(f.rows) |->
                JsonLoads(ConvertTerms(f.rows[i].mental_health_terms))])

\* lines 193-204: insert-or-increment of every counted term
Upsert(table, all_terms) ==
    {r \in table : r.term_text \notin Range(all_terms)} \cup
    {LET old == {r \in table : r.term_text = t}
     IN  IF old = {}
         THEN [term_text |-> t, category |-> "general",
               occurrence_count |-> CountOf(all_terms, t)]
         ELSE LET r == CHOOSE r \in old : TRUE
              IN  [r EXCEPT !.occurrence_count = @ + CountOf(all_terms, t)]
     : t \in Range(all_terms)}

\* lines 207-214: the aggregation names retweet_count and favorite_count of
\* df, which exist only when the source has them
AggRaises(cols) == ~({"retweet_count", "favorite_count"} \subseteq cols)

\* groupby sorts its keys; the order of the authors of the model
UserOrder == <<"", "alice", "bob">>

\* the sum of the cells of a counter column over a set of rows, NaN skipped
RECURSIVE SumOfCells(_, _, _)
SumOfCells(f, S, col) ==
    IF S = {} THEN 0
    ELSE LET i == CHOOSE i \in S : TRUE
             v == IF f.rows[i][col] = <<>> THEN 0 ELSE f.rows[i][col][1]
         IN  v + SumOfCells(f, S \ {i}, col)

CountOfCells(f, S, col) == Cardinality({i \in S : f.rows[i][col] # <<>>})

\* a fraction; the denominator 0 stands for NaN
Fraction(num, den) == [num |-> num, den |-> den]

\* lines 213-214, 224: the mean of each counter over the cells the group has
\* (mean skips NaN), then the half of the sum of the two means
AvgEngagementOfMeans(f, S) ==
    LET cr == CountOfCells(f, S, "retweet_count")
        cf == CountOfCells(f, S, "favorite_count")
        sr == SumOfCells(f, S, "retweet_count")
        sf == SumOfCells(f, S, "favorite_count")
    IN  IF cr = 0 \/ cf = 0 THEN Fraction(0, 0)
        ELSE Fraction(sr * cf + sf * cr, 2 * cr * cf)

\* lines 207-227: one row per author of the batch (groupby drops NaN keys)
UserMetricsFrame(f) ==
    LET n == Len(f.rows)
        of(u) == {i \in 1..n : UsernameOf(f, i) = u}
        present(u) == of(u) # {}
    IN  [k \in 1..Len(SelectSeq(UserOrder, present)) |->
            LET u == SelectSeq(UserOrder, present)[k]
            IN  [username |-> u,
                 tweet_count |->
                     Cardinality({i \in of(u) : TweetIdOf(f, i) # NaN}),
                 mental_health_tweet_count |->
                     Cardinality({i \in of(u) : FlagOf(f, i) = 1}),
                 avg_engagement |-> AvgEngagementOfMeans(f, of(u))]]

(***************************************************************************)
(* DataFrame.to_sql(table, conn, if_exists='append', index=False) on a     *)
(* sqlite3 connection.  An empty frame writes nothing.  Otherwise the rows *)
(* are inserted under the frame's column names in one transaction of the   *)
(* connection: committed (with whatever the connection had pending) on     *)
(* success, rolled back (with whatever it had pending) on an error.        *)
(***************************************************************************)
\* a primary-key column rejects a value already present; NULLs never collide
KeyCollision(existing, rows, pk) ==
    \E i \in 1..Len(rows) :
        /\ rows[i][pk] # NaN
        /\ \/ \E j \in 1..Len(existing) : existing[j][pk] = rows[i][pk]
           \/ \E j \in 1..Len(rows) : j # i /\ rows[j][pk] = rows[i][pk]

\* an insert by position, which never looks at the column names
ToSqlErrorByPosition(cx, table, frameCols, tableCols, rows, pk) ==
    IF Len(rows) = 0 THEN "none"
    ELSE IF KeyCollision(cx[table], rows, pk) THEN "IntegrityError"
    ELSE "none"

ToSqlError(cx, table, frameCols, tableCols, rows, pk) ==
    IF Len(rows) = 0 THEN "none"
    ELSE IF ~(frameCols \subseteq tableCols) THEN "OperationalError"
    ELSE IF KeyCollision(cx[table], rows, pk) THEN "IntegrityError"
    ELSE "none"

ToSql(db, cx, table, frameCols, tableCols, rows, pk) ==
    LET err == ToSqlError(cx, table, frameCols, tableCols, rows, pk)
        new == [cx EXCEPT ![table] = @ \o rows]
    IN  IF Len(rows) = 0 THEN [committed |-> db, conn |-> cx, error |-> err]
        ELSE IF err # "none" THEN [committed |-> db, conn |-> db, error |-> err]
        ELSE [committed |-> new, conn |-> new, error |-> "none"]

\* a handler that reports a failure as -1
FailedWithStatus(db, cx, at, err) ==
    [committed |-> db, conn |-> cx, ret |-> -1, error |-> err, step |-> at]

\* lines 237-239: any exception is swallowed and 0 is returned
Failed(db, cx, at, err) ==
    [committed |-> db, conn |-> cx, ret |-> 0, error |-> err, step |-> at]

\* lines 103-239: the call import_processed_data(conn, f) on a connection
\* whose committed state is db and whose own view is cx
import_processed_data(db, cx, f) ==
    IF ReadCsvRaises(f)
    THEN Failed(db, cx, "read_csv", "EmptyDataError")
    ELSE IF DefaultingRaises(f.cols)
    THEN Failed(db, cx, "columns", "KeyError")
    ELSE IF \E i \in 1..Len(f.rows) : EvalRaises(f.rows[i].mental_health_terms)
    THEN Failed(db, cx, "terms", "SyntaxError")
    ELSE IF ~HasUsername(f.cols)
    THEN Failed(db, cx, "tweets_df", "KeyError")
    ELSE
    LET t == ToSql(db, cx, "tweets", TweetsFrameColumns, TweetsTableColumns,
                   TweetsFrame(f), "tweet_id")
    IN  IF t.error # "none"
        THEN Failed(t.committed, t.conn, "tweets", t.error)
        ELSE
    LET s == ToSql(t.committed, t.conn, "tweet_sentiment",
                   SentimentFrameColumns, SentimentTableColumns,
                   SentimentFrame(f), "tweet_id")
    IN  IF s.error # "none"
        THEN Failed(s.committed, s.conn, "tweet_sentiment", s.error)
        ELSE
    LET cx2 == [s.conn EXCEPT !.mental_health_terms = Upsert(@, AllTerms(f))]
    IN  IF AggRaises(f.cols)
        THEN Failed(s.committed, cx2, "user_metrics_df", "KeyError")
        ELSE
    LET u == ToSql(s.committed, cx2, "user_metrics", UserMetricsFrameColumns,
                   UserMetricsTableColumns, UserMetricsFrame(f), "username")
    IN  IF u.error # "none"
        THEN Failed(u.committed, u.conn, "user_metrics", u.error)
        ELSE [committed |-> u.conn, conn |-> u.conn, ret |-> Len(f.rows),
              error |-> "none", step |-> "done"]

(***************************************************************************)
(* clean_tweet.  A text is a sequence of one-character strings.            *)
(***************************************************************************)
Whitespace == {" ", "\t", "\n"}

WordChars ==
    {"a", "b", "c", "d", "e", "f", "g", "h", "i", "j", "k", "l", "m", "n",
     "o", "p", "q", "r", "s", "t", "u", "v", "w", "x", "y", "z",
     "A", "B", "C", "D", "E", "F", "G", "H", "I", "J", "K", "L", "M", "N",
     "O", "P", "Q", "R", "S", "T", "U", "V", "W", "X", "Y", "Z",
     "0", "1", "2", "3", "4", "5", "6", "7", "8", "9", "_"}

IsSpace(c) == c \in Whitespace

IsWord(c) == c \in WordChars

Str(chars) == [isstr |-> TRUE, chars |-> chars]

NotAString == [isstr |-> FALSE, chars |-> <<>>]

StartsWith(s, p) == Len(s) >= Len(p) /\ SubSeq(s, 1, Len(p)) = p

RECURSIVE SkipNonSpace(_)
SkipNonSpace(s) ==
    IF s = <<>> \/ IsSpace(Head(s)) THEN s ELSE SkipNonSpace(Tail(s))

RECURSIVE SkipSpace(_)
SkipSpace(s) ==
    IF s = <<>> \/ ~IsSpace(Head(s)) THEN s ELSE SkipSpace(Tail(s))

RECURSIVE SkipWord(_)
SkipWord(s) ==
    IF s = <<>> \/ ~IsWord(Head(s)) THEN s ELSE SkipWord(Tail(s))

Filter(s, Keep(_)) == SelectSeq(s, Keep)

\* one alternative lit\S+ of the URL pattern matches at the head of s
MatchesLiteral(s, lit) ==
    StartsWith(s, lit) /\ Len(s) > Len(lit) /\ ~IsSpace(s[Len(lit) + 1])

\* line 45: r'http\S+|www\S+|https\S+' matches at the head of s
UrlMatches(s) ==
    \/ MatchesLiteral(s, <<"h", "t", "t", "p">>)
    \/ MatchesLiteral(s, <<"w", "w", "w">>)
    \/ MatchesLiteral(s, <<"h", "t", "t", "p", "s">>)

\* line 45: every match runs to the end of its whitespace-free token
RECURSIVE RemoveUrls(_)
RemoveUrls(s) ==
    IF s = <<>> THEN <<>>
    ELSE IF UrlMatches(s) THEN RemoveUrls(SkipNonSpace(s))
    ELSE <<Head(s)>> \o RemoveUrls(Tail(s))

\* line 48: r'@\w+'
RECURSIVE RemoveMentions(_)
RemoveMentions(s) ==
    IF s = <<>> THEN <<>>
    ELSE IF Head(s) = "@" /\ Len(s) > 1 /\ IsWord(s[2])
         THEN RemoveMentions(SkipWord(Tail(s)))
    ELSE <<Head(s)>> \o RemoveMentions(Tail(s))

\* line 51: r'#'
NotHash(c) == c # "#"

RemoveHashes(s) == Filter(s, NotHash)

\* line 54: r'[^\w\s]'
WordOrSpace(c) == IsWord(c) \/ IsSpace(c)

RemoveNonAlphanumeric(s) == Filter(s, WordOrSpace)

\* line 57: r'\s+' becomes one space
RECURSIVE CollapseWhitespace(_)
CollapseWhitespace(s) ==
    IF s = <<>> THEN <<>>
    ELSE IF IsSpace(Head(s)) THEN <<" ">> \o CollapseWhitespace(SkipSpace(s))
    ELSE <<Head(s)>> \o CollapseWhitespace(Tail(s))

RECURSIVE StripRight(_)
StripRight(s) ==
    IF s = <<>> \/ ~IsSpace(s[Len(s)]) THEN s
    ELSE StripRight(SubSeq(s, 1, Len(s) - 1))

\* line 57: .strip()
Strip(s) == StripRight(SkipSpace(s))

\* lines 31-59
clean_tweet(t) ==
    IF ~t.isstr THEN <<>>
    ELSE Strip(CollapseWhitespace(RemoveNonAlphanumeric(RemoveHashes(
             RemoveMentions(RemoveUrls(t.chars))))))

(***************************************************************************)
(* Inputs of clean_tweet: texts of up to MaxPieces pieces, the example of  *)
(* the specification, and a value that is not a string.                    *)
(***************************************************************************)
Pieces ==
    {<<"h", "t">>, <<"t", "p">>, <<"w">>, <<"!">>, <<" ">>, <<"@">>, <<"#">>,
     <<"_">>}

\* "check this http://x.co @bob #sad!!"
ExampleTweet ==
    <<"c", "h", "e", "c", "k", " ", "t", "h", "i", "s", " ",
      "h", "t", "t", "p", ":", "/", "/", "x", ".", "c", "o", " ",
      "@", "b", "o", "b", " ", "#", "s", "a", "d", "!", "!">>

\* "check this sad"
ExampleCleaned ==
    <<"c", "h", "e", "c", "k", " ", "t", "h", "i", "s", " ", "s", "a", "d">>

TweetInputs ==
    {Str(Flatten(ps)) : ps \in UNION {[1..n -> Pieces] : n \in 0..MaxPieces}}
    \cup {Str(ExampleTweet), NotAString}

(***************************************************************************)
(* analyze_sentiment_textblob and analyze_sentiment_vader.  The libraries  *)
(* that compute the scores are not part of the program: a score is any     *)
(* value of their range, counted in hundredths.                            *)
(***************************************************************************)
\* line 74: polarity and compound run from -1 to 1
MaxScore == 100

Scores == -MaxScore..MaxScore

\* lines 99-100: the threshold 0.05 of the VADER category
VaderThreshold == 5

\* a category that takes a polarity of zero for positive
TextblobCategoryZeroPositive(polarity) ==
    IF polarity >= 0 THEN "positive"
    ELSE IF polarity < 0 THEN "negative"
    ELSE "neutral"

\* lines 77-78
TextblobCategory(polarity) ==
    IF polarity > 0 THEN "positive"
    ELSE IF polarity < 0 THEN "negative"
    ELSE "neutral"

\* a category whose thresholds are exclusive
VaderCategoryExclusive(compound) ==
    IF compound > VaderThreshold THEN "positive"
    ELSE IF compound < -VaderThreshold THEN "negative"
    ELSE "neutral"

\* lines 99-100
VaderCategory(compound) ==
    IF compound >= VaderThreshold THEN "positive"
    ELSE IF compound <= -VaderThreshold THEN "negative"
    ELSE "neutral"

(***************************************************************************)
(* extract_mental_health_terms.                                            *)
(***************************************************************************)
UpperCase ==
    <<"A", "B", "C", "D", "E", "F", "G", "H", "I", "J", "K", "L", "M", "N",
      "O", "P", "Q", "R", "S", "T", "U", "V", "W", "X", "Y", "Z">>

LowerCase ==
    <<"a", "b", "c", "d", "e", "f", "g", "h", "i", "j", "k", "l", "m", "n",
      "o", "p", "q", "r", "s", "t", "u", "v", "w", "x", "y", "z">>

\* str.lower() of one character
LowerChar(c) ==
    IF \E k \in 1..Len(UpperCase) : UpperCase[k] = c
    THEN LowerCase[CHOOSE k \in 1..Len(UpperCase) : UpperCase[k] = c]
    ELSE c

\* str.lower()
Lower(s) == [k \in 1..Len(s) |-> LowerChar(s[k])]

\* sub in s
RECURSIVE Contains(_, _)
Contains(s, sub) ==
    IF Len(s) < Len(sub) THEN FALSE
    ELSE StartsWith(s, sub) \/ Contains(Tail(s), sub)

\* lines 117-119 with a text that is not lowered
RECURSIVE AppendFoundCaseSensitive(_, _)
AppendFoundCaseSensitive(s, terms) ==
    IF terms = <<>> THEN <<>>
    ELSE (IF Contains(s, Lower(Head(terms))) THEN <<Head(terms)>> ELSE <<>>)
         \o AppendFoundCaseSensitive(s, Tail(terms))

extract_case_sensitive(s, terms) == AppendFoundCaseSensitive(s, terms)

\* lines 117-119: the loop over the vocabulary
RECURSIVE AppendFound(_, _)
AppendFound(text_lower, terms) ==
    IF terms = <<>> THEN <<>>
    ELSE (IF Contains(text_lower, Lower(Head(terms)))
          THEN <<Head(terms)>> ELSE <<>>)
         \o AppendFound(text_lower, Tail(terms))

\* lines 103-121
extract_mental_health_terms(s, terms) == AppendFound(Lower(s), terms)

\* lines 173-177: the vocabulary of process_tweet_file
mental_health_terms ==
    <<
    <<"m", "e", "n", "t", "a", "l", " ", "h", "e", "a", "l", "t", "h">>,
    <<"a", "n", "x", "i", "e", "t", "y">>,
    <<"d", "e", "p", "r", "e", "s", "s", "i", "o", "n">>,
    <<"s", "t", "r", "e", "s", "s">>,
    <<"t", "h", "e", "r", "a", "p", "y">>,
    <<"s", "e", "l", "f", " ", "c", "a", "r", "e">>,
    <<"m", "i", "n", "d", "f", "u", "l", "n", "e", "s", "s">>,
    <<"b", "u", "r", "n", "o", "u", "t">>,
    <<"m", "e", "n", "t", "a", "l", " ", "w", "e", "l", "l", "b", "e", "i",
      "n", "g">>,
    <<"m", "e", "n", "t", "a", "l", " ", "i", "l", "l", "n", "e", "s", "s">>,
    <<"p", "a", "n", "i", "c", " ", "a", "t", "t", "a", "c", "k">>,
    <<"i", "n", "s", "o", "m", "n", "i", "a">>,
    <<"m", "e", "n", "t", "a", "l", " ", "w", "e", "l", "l", "n", "e", "s",
      "s">>
    >>

(***************************************************************************)
(* Inputs of extract_mental_health_terms: texts of up to MaxTagPieces      *)
(* pieces, against the vocabulary of the program or a list with a          *)
(* capitalised term.                                                       *)
(***************************************************************************)
TagPieces ==
    {<<"A", "n", "x", "i", "e", "t", "y">>,
     <<"s", "t", "r", "e", "s", "s">>,
     <<"d", "i">>,
     <<"M", "E", "N", "T", "A", "L", " ">>,
     <<"h", "e", "a", "l", "t", "h">>,
     <<"i", "l", "l", "n", "e", "s", "s">>,
     <<" ">>, <<"x">>}

Vocabularies ==
    {mental_health_terms,
     <<<<"S", "t", "r", "e", "s", "s">>, <<"h", "e", "a", "l", "t", "h">>>>}

TagInputs ==
    {Flatten(ps) : ps \in UNION {[1..n -> TagPieces] : n \in 0..MaxTagPieces}}

(***************************************************************************)
(* process_tweet_file.  A tweet of the JSON file is its text and what the  *)
(* two scoring libraries do with its cleaned text: answer a score or       *)
(* raise.                                                                  *)
(***************************************************************************)
Answers(n) == [raises |-> FALSE, value |-> n]

Raises == [raises |-> TRUE, value |-> 0]

Tweet(t, polarity, compound) ==
    [text |-> t, polarity |-> polarity, compound |-> compound]

\* "Anxiety & stress!"
TextWithTerms ==
    Str(<<"A", "n", "x", "i", "e", "t", "y", " ", "&", " ", "s", "t", "r", "e", "s", "s", "!">>)

\* "so happy"
TextWithoutTerms == Str(<<"s", "o", " ", "h", "a", "p", "p", "y">>)

TweetPool ==
    {Tweet(t, p, c) :
        t \in {TextWithTerms, TextWithoutTerms, NotAString},
        p \in {Raises, Answers(0), Answers(50)},
        c \in {Raises, Answers(5), Answers(-30)}}

JsonFiles == UNION {[1..n -> TweetPool] : n \in 0..MaxRows}

\* a flag that is set for every row
ContainsTermAlways(terms) == Len(terms) >= 0

\* line 181
ContainsTerm(terms) == Len(terms) > 0

\* lines 156-181: the columns the function adds to one row
ProcessedRow(t) ==
    LET cleaned_text == clean_tweet(t.text)
        terms == extract_mental_health_terms(cleaned_text, mental_health_terms)
    IN  [text |-> t.text,
         cleaned_text |-> cleaned_text,
         textblob_polarity |-> t.polarity.value,
         textblob_category |-> TextblobCategory(t.polarity.value),
         vader_compound |-> t.compound.value,
         vader_category |-> VaderCategory(t.compound.value),
         mental_health_terms |-> terms,
         contains_mental_health_term |-> ContainsTerm(terms)]

\* lines 159, 165: an apply raises when the scoring function raises on a row
ScoringRaises(tweets) ==
    \E i \in 1..Len(tweets) :
        tweets[i].polarity.raises \/ tweets[i].compound.raises

\* lines 139-194: the frame returned (no rows for None) and whether the CSV
\* file was written
process_tweet_file(tweets) ==
    IF tweets = <<>> THEN [df |-> <<>>, csv |-> FALSE]
    ELSE IF ScoringRaises(tweets) THEN [df |-> <<>>, csv |-> FALSE]
    ELSE [df |-> [i \in 1..Len(tweets) |-> ProcessedRow(tweets[i])],
          csv |-> TRUE]

(***************************************************************************)
(* The state machine.                                                      *)
(***************************************************************************)
StoredRows(db) ==
    Len(db.tweets) + Len(db.tweet_sentiment) + Len(db.user_metrics)

IdsOf(f) == {TweetIdOf(f, i) : i \in 1..Len(f.rows)} \ {NaN}

AuthorsOf(f) ==
    IF HasUsername(f.cols)
    THEN {UsernameOf(f, i) : i \in 1..Len(f.rows)} \ {NaN}
    ELSE {}

NoRelation == [same |-> FALSE, authors_seen |-> FALSE, new_ids |-> FALSE]

\* the variables of a function that the specification at hand does not run
DbOff ==
    /\ committed = create_database
    /\ conn = create_database
    /\ csv_file = NoFile
    /\ pc = "idle"
    /\ ret = 0
    /\ error = "none"
    /\ step = "none"
    /\ before = [committed |-> create_database, conn |-> create_database]
    /\ rel = NoRelation
    /\ total_imported = 0

CleanOff ==
    /\ tweet = NotAString
    /\ cleaned = <<>>
    /\ recleaned = <<>>
    /\ cpc = "off"

ScoreOff ==
    /\ score = 0
    /\ scorer = "off"
    /\ category = "none"

TagOff ==
    /\ tag_text = <<>>
    /\ vocabulary = <<>>
    /\ found_terms = <<>>
    /\ tpc = "off"

ProcessOff ==
    /\ json_file = <<>>
    /\ df = <<>>
    /\ csv_written = FALSE
    /\ ppc = "off"

CollectOff ==
    /\ tweets_per_keyword = 0
    /\ keyword_index = 0
    /\ collected = 0
    /\ cursor = "None"
    /\ all_tweets = <<>>
    /\ kpc = "off"

Init ==
    /\ committed = create_database
    /\ conn = create_database
    /\ csv_file = NoFile
    /\ pc = "idle"
    /\ ret = 0
    /\ error = "none"
    /\ step = "none"
    /\ before = [committed |-> create_database, conn |-> create_database]
    /\ rel = NoRelation
    /\ total_imported = 0
    /\ tweet = NotAString
    /\ cleaned = <<>>
    /\ recleaned = <<>>
    /\ cpc = "off"
    /\ ScoreOff
    /\ TagOff
    /\ ProcessOff
    /\ CollectOff

\* import_all_processed_data, lines 267-269: the next file of the directory
\* is handed to import_processed_data
SelectFile(f) ==
    /\ pc \in {"idle", "returned"}
    /\ StoredRows(conn) < MaxStoredRows
    /\ csv_file' = f
    /\ pc' = "selected"
    /\ rel' = IF pc = "returned"
              THEN [same |-> f = csv_file,
                    authors_seen |-> /\ AuthorsOf(f) # {}
                                    /\ AuthorsOf(f) \subseteq AuthorsOf(csv_file),
                    new_ids |-> IdsOf(f) \cap IdsOf(csv_file) = {}]
              ELSE NoRelation
    /\ UNCHANGED <<committed, conn, ret, error, step, before, total_imported,
                   cleanvars, analysisvars>>

\* import_processed_data, lines 90-239, and the running total of its caller,
\* lines 268-269
ImportProcessedData ==
    /\ pc = "selected"
    /\ LET r == import_processed_data(committed, conn, csv_file)
       IN  /\ committed' = r.committed
           /\ conn' = r.conn
           /\ ret' = r.ret
           /\ error' = r.error
           /\ step' = r.step
           /\ total_imported' = total_imported + r.ret
    /\ before' = [committed |-> committed, conn |-> conn]
    /\ pc' = "returned"
    /\ UNCHANGED <<csv_file, rel, cleanvars, analysisvars>>

Next ==
    \/ \E f \in CsvFiles : SelectFile(f)
    \/ ImportProcessedData

Spec == Init /\ [][Next]_vars

(***************************************************************************)
(* The specification of clean_tweet alone.                                 *)
(***************************************************************************)
InitClean ==
    /\ committed = create_database
    /\ conn = create_database
    /\ csv_file = NoFile
    /\ pc = "idle"
    /\ ret = 0
    /\ error = "none"
    /\ step = "none"
    /\ before = [committed |-> create_database, conn |-> create_database]
    /\ rel = NoRelation
    /\ total_imported = 0
    /\ tweet \in TweetInputs
    /\ cleaned = <<>>
    /\ recleaned = <<>>
    /\ cpc = "raw"
    /\ ScoreOff
    /\ TagOff
    /\ ProcessOff
    /\ CollectOff

\* process_tweet_file, line 156: df['text'].apply(clean_tweet)
CleanTweet ==
    /\ cpc = "raw"
    /\ cleaned' = clean_tweet(tweet)
    /\ cpc' = "cleaned"
    /\ UNCHANGED <<tweet, recleaned, dbvars, analysisvars>>

\* clean_tweet applied to its own output
CleanAgain ==
    /\ cpc = "cleaned"
    /\ recleaned' = clean_tweet(Str(cleaned))
    /\ cpc' = "recleaned"
    /\ UNCHANGED <<tweet, cleaned, dbvars, analysisvars>>

NextClean == CleanTweet \/ CleanAgain

SpecClean == InitClean /\ [][NextClean]_vars

(***************************************************************************)
(* The specification of the two sentiment categories alone.                *)
(***************************************************************************)
InitScore ==
    /\ DbOff
    /\ CleanOff
    /\ CollectOff
    /\ TagOff
    /\ ProcessOff
    /\ score \in Scores
    /\ scorer = "none"
    /\ category = "none"

\* analyze_sentiment_textblob, lines 61-79
AnalyzeSentimentTextblob ==
    /\ scorer = "none"
    /\ category' = TextblobCategory(score)
    /\ scorer' = "textblob"
    /\ UNCHANGED <<score, dbvars, cleanvars, tagvars, procvars, collectvars>>

\* analyze_sentiment_vader, lines 81-101
AnalyzeSentimentVader ==
    /\ scorer = "none"
    /\ category' = VaderCategory(score)
    /\ scorer' = "vader"
    /\ UNCHANGED <<score, dbvars, cleanvars, tagvars, procvars, collectvars>>

NextScore == AnalyzeSentimentTextblob \/ AnalyzeSentimentVader

SpecScore == InitScore /\ [][NextScore]_vars

(***************************************************************************)
(* The specification of extract_mental_health_terms alone.                 *)
(***************************************************************************)
InitTag ==
    /\ DbOff
    /\ CleanOff
    /\ CollectOff
    /\ ScoreOff
    /\ ProcessOff
    /\ tag_text \in TagInputs
    /\ vocabulary \in Vocabularies
    /\ found_terms = <<>>
    /\ tpc = "text"

\* extract_mental_health_terms, lines 103-121
ExtractMentalHealthTerms ==
    /\ tpc = "text"
    /\ found_terms' = extract_mental_health_terms(tag_text, vocabulary)
    /\ tpc' = "tagged"
    /\ UNCHANGED <<tag_text, vocabulary, dbvars, cleanvars, scorevars, procvars,
                   collectvars>>

NextTag == ExtractMentalHealthTerms

SpecTag == InitTag /\ [][NextTag]_vars

(***************************************************************************)
(* The specification of process_tweet_file alone, and the specification    *)
(* of the two stages of the pipeline, each run on its own inputs.          *)
(***************************************************************************)
InitProcess ==
    /\ DbOff
    /\ CleanOff
    /\ CollectOff
    /\ ScoreOff
    /\ TagOff
    /\ json_file \in JsonFiles
    /\ df = <<>>
    /\ csv_written = FALSE
    /\ ppc = "loaded"

\* process_tweet_file, lines 123-194
ProcessTweetFile ==
    /\ ppc = "loaded"
    /\ LET r == process_tweet_file(json_file)
       IN  /\ df' = r.df
           /\ csv_written' = r.csv
    /\ ppc' = "returned"
    /\ UNCHANGED <<json_file, dbvars, cleanvars, scorevars, tagvars, collectvars>>

NextProcess == ProcessTweetFile

SpecProcess == InitProcess /\ [][NextProcess]_vars

InitPipeline == InitProcess \/ Init

\* a run is a run of one of the two programs
NextPipeline ==
    \/ ProcessTweetFile
    \/ ppc = "off" /\ \E f \in CsvFiles : SelectFile(f)
    \/ ppc = "off" /\ ImportProcessedData

SpecPipeline == InitPipeline /\ [][NextPipeline]_vars

(***************************************************************************)
(* collect_mental_health_tweets.  What the API answers is not the          *)
(* program's: every request is answered by any response.  A response is    *)
(* missing (search_tweets returned None), has no 'result', has a result    *)
(* without a timeline, or has a timeline; an instruction of a timeline is  *)
(* the number of its entries from which extract_tweet_data extracts a      *)
(* tweet; the bottom cursor is one of two values or absent.                *)
(***************************************************************************)
\* the first keywords of MENTAL_HEALTH_KEYWORDS, lines 21-25
Keywords == <<"mental health", "anxiety">>

Cursors == {"c1", "c2"}

Response(kind, instructions, bottom) ==
    [kind |-> kind, instructions |-> instructions, bottom |-> bottom]

InstructionSeqs ==
    UNION {[1..n -> 0..MaxEntries] : n \in 0..MaxInstructions}

Responses ==
    {Response("None", <<>>, "None"), Response("no_result", <<>>, "None")}
    \cup {Response("no_timeline", <<>>, b) : b \in Cursors \cup {"None"}}
    \cup {Response("timeline", is, b) :
             is \in InstructionSeqs, b \in Cursors \cup {"None"}}

\* lines 93-103: the entries of one instruction; the break leaves this loop
RECURSIVE CollectEntries(_, _, _)
CollectEntries(entries, count, target) ==
    IF entries = 0 THEN count
    ELSE IF count + 1 >= target THEN count + 1
    ELSE CollectEntries(entries - 1, count + 1, target)

\* lines 91-103: the instructions of one response, each gone through
RECURSIVE CollectInstructions(_, _, _)
CollectInstructions(instructions, count, target) ==
    IF instructions = <<>> THEN count
    ELSE CollectInstructions(Tail(instructions),
             CollectEntries(Head(instructions), count, target), target)

\* lines 96-99: a tweet as it is appended; query is the keyword of the
\* request that found it
CollectedTweet(keyword) == [query |-> keyword, search_keyword |-> keyword]

InitCollect ==
    /\ DbOff
    /\ CleanOff
    /\ ScoreOff
    /\ TagOff
    /\ ProcessOff
    /\ tweets_per_keyword \in 0..MaxTarget
    /\ keyword_index = 1
    /\ collected = 0
    /\ cursor = "None"
    /\ all_tweets = <<>>
    /\ kpc = "while"

\* line 79: the loop test; lines 74-77: the next keyword when it fails
LoopTest ==
    /\ kpc = "while"
    /\ IF collected < tweets_per_keyword
       THEN /\ kpc' = "request"
            /\ UNCHANGED <<keyword_index, collected, cursor>>
       ELSE /\ keyword_index' = keyword_index + 1
            /\ collected' = 0
            /\ cursor' = "None"
            /\ kpc' = IF keyword_index = Len(Keywords) THEN "done" ELSE "while"
    /\ UNCHANGED <<tweets_per_keyword, all_tweets, dbvars, cleanvars,
                   scorevars, tagvars, procvars>>

\* lines 80-114: one request and the handling of its response
Request(response) ==
    /\ kpc = "request"
    /\ IF response.kind \in {"None", "no_result"}
       THEN \* lines 82-84
            /\ keyword_index' = keyword_index + 1
            /\ collected' = 0
            /\ cursor' = "None"
            /\ kpc' = IF keyword_index = Len(Keywords) THEN "done" ELSE "while"
            /\ UNCHANGED all_tweets
       ELSE LET count == CollectInstructions(response.instructions, collected,
                                             tweets_per_keyword)
                found == [k \in 1..(count - collected) |->
                             CollectedTweet(Keywords[keyword_index])]
            IN  /\ all_tweets' = all_tweets \o found
                /\ IF response.bottom # "None"
                   THEN \* lines 108-109
                        /\ cursor' = response.bottom
                        /\ collected' = count
                        /\ kpc' = "while"
                        /\ UNCHANGED keyword_index
                   ELSE \* lines 110-111
                        /\ keyword_index' = keyword_index + 1
                        /\ collected' = 0
                        /\ cursor' = "None"
                        /\ kpc' = IF keyword_index = Len(Keywords)
                                  THEN "done" ELSE "while"
    /\ UNCHANGED <<tweets_per_keyword, dbvars, cleanvars, scorevars, tagvars,
                   procvars>>

NextCollect ==
    \/ LoopTest
    \/ \E response \in Responses : Request(response)

SpecCollect == InitCollect /\ [][NextCollect]_vars

\* the statements of the function run one after another
SpecCollectFair == SpecCollect /\ WF_vars(NextCollect)

(***************************************************************************)
(* Vocabulary of the properties.                                           *)
(***************************************************************************)
Returned == pc = "returned"

BatchSize == Len(csv_file.rows)

HasIdColumn(f) == "tweet_id" \in RenamedColumns(f.cols)

\* the header names an identifier column and every other column
CompleteHeader(f) ==
    HasIdColumn(f) /\ AllColumns \ {"tweet_id"} \subseteq f.cols

\* the rows of the file that lack the identifier
MissingId(f) == {i \in 1..Len(f.rows) : TweetIdOf(f, i) = NaN}

\* the terms of the file's rows
TermsOfFile(f) ==
    IF "mental_health_terms" \in f.cols THEN Range(AllTerms(f)) ELSE {}

\* occurrence_count of term t in a database, 0 when the term has no row
OccurrenceCount(db, t) ==
    LET rows == {r \in db.mental_health_terms : r.term_text = t}
    IN  IF rows = {} THEN 0 ELSE (CHOOSE r \in rows : TRUE).occurrence_count

HasTermRow(db, t) == \E r \in db.mental_health_terms : r.term_text = t

StoredIds(db) == {db.tweets[i].tweet_id : i \in 1..Len(db.tweets)} \ {NaN}

RowsWithId(db, id) == {i \in 1..Len(db.tweets) : db.tweets[i].tweet_id = id}

MetricsRowsOf(db, a) ==
    {i \in 1..Len(db.user_metrics) : db.user_metrics[i].username = a}

Terms == {"anxiety", "stress"}

\* the steps at or after the first write
WriteSteps == {"tweets", "tweet_sentiment", "user_metrics_df", "user_metrics"}

C2_TwiceDoubles ==
    (Returned /\ rel.same)
        => \A t \in TermsOfFile(csv_file) :
              /\ HasTermRow(committed, t)
              /\ OccurrenceCount(committed, t)
                     = 2 * OccurrenceCount(before.committed, t)

(***************************************************************************)
(* C3.  For a batch of N records of which M lack the identifier, the       *)
(* import persists exactly N - M posts.                                    *)
(***************************************************************************)
C3_DropsExactlyIdless ==
    (Returned /\ HasIdColumn(csv_file))
        => Len(committed.tweets) - Len(before.committed.tweets)
               = BatchSize - Cardinality(MissingId(csv_file))

(***************************************************************************)
(* C4.  A batch of N records that all carry an identifier is imported in   *)
(* full whatever other fields are missing: N post rows are persisted and   *)
(* N is returned.                                                          *)
(***************************************************************************)
C4_OptionalFieldsNeverDrop ==
    (Returned /\ HasIdColumn(csv_file) /\ MissingId(csv_file) = {}
              /\ IdsOf(csv_file) \cap StoredIds(before.committed) = {}
              /\ Cardinality(IdsOf(csv_file)) = BatchSize)
        => /\ ret = BatchSize
           /\ Len(committed.tweets) - Len(before.committed.tweets) = BatchSize

C6_MetricsAppendedPerBatch ==
    (Returned /\ rel.authors_seen /\ rel.new_ids)
        => /\ error = "none"
           /\ ret = BatchSize
           /\ \A a \in AuthorsOf(csv_file) :
                  Cardinality(MetricsRowsOf(committed, a)) >= 2

(***************************************************************************)
(* C7.  Re-import is idempotent for posts: every post stored before the    *)
(* import keeps exactly one, unchanged, row; no post id is stored twice;   *)
(* and the posts of the source whose ids are new are persisted.            *)
(***************************************************************************)
C7_ReimportIdempotent ==
    Returned
        => /\ \A i \in 1..Len(before.committed.tweets) :
                 LET r == before.committed.tweets[i]
                 IN  r.tweet_id # NaN =>
                        /\ Cardinality(RowsWithId(committed, r.tweet_id)) = 1
                        /\ \E j \in 1..Len(committed.tweets) :
                               committed.tweets[j] = r
           /\ \A id \in StoredIds(committed) :
                 Cardinality(RowsWithId(committed, id)) = 1
           /\ CompleteHeader(csv_file)
                 => IdsOf(csv_file) \subseteq StoredIds(committed)

(***************************************************************************)
(* C8.  End to end: of the three records (one well-formed, one with a      *)
(* string-encoded term list and no retweet count, one without identifier)  *)
(* exactly two posts are persisted, the one without identifier is not, and *)
(* the term counts are those of the two retained rows.                     *)
(***************************************************************************)
C8_EndToEnd ==
    (Returned /\ csv_file = EndToEndFile /\ before.committed = create_database)
        => /\ Len(committed.tweets) = 2
           /\ StoredIds(committed) = {"t1", "t2"}
           /\ OccurrenceCount(committed, "anxiety") = 2
           /\ OccurrenceCount(committed, "stress") = 1

(***************************************************************************)
(* C9.  clean_tweet is idempotent: cleaning its own output changes nothing.*)
(***************************************************************************)
C9_CleanIdempotent == (cpc = "recleaned") => recleaned = cleaned

\* the URL pattern of clean_tweet matches somewhere in s
HasUrl(s) == \E i \in 1..Len(s) : UrlMatches(SubSeq(s, i, Len(s)))

\* the mention pattern of clean_tweet matches somewhere in s
HasMention(s) == \E i \in 1..(Len(s) - 1) : s[i] = "@" /\ IsWord(s[i + 1])

(***************************************************************************)
(* C10.  The output of clean_tweet holds no token the URL pattern matches  *)
(* and no @-mention, and the example of the specification is cleaned to    *)
(* "check this sad".                                                       *)
(***************************************************************************)
C10_NoUrlNoMention ==
    (cpc \in {"cleaned", "recleaned"})
        => /\ ~HasUrl(cleaned)
           /\ ~HasMention(cleaned)
           /\ (tweet = Str(ExampleTweet) => cleaned = ExampleCleaned)

\* the order of the categories
Rank(c) == IF c = "negative" THEN -1 ELSE IF c = "neutral" THEN 0 ELSE 1

\* C11: the TextBlob category is positive exactly when the polarity is above
\* zero, negative exactly when it is below zero and neutral exactly when it
\* is zero, and no lower polarity gets a higher category.
C11_TextblobSignOfPolarity ==
    scorer = "textblob" =>
        /\ category = "positive" <=> score > 0
        /\ category = "negative" <=> score < 0
        /\ category = "neutral" <=> score = 0
        /\ \A q \in Scores :
               q <= score => Rank(TextblobCategory(q)) <= Rank(category)

C11_Witness == scorer = "textblob" /\ score = 0 /\ category = "neutral"

\* C12: the VADER category is positive exactly when the compound score is at
\* least 0.05, negative exactly when it is at most -0.05 and neutral exactly
\* when it lies strictly between the two (scores are in hundredths), and no
\* lower compound score gets a higher category.
C12_VaderInclusiveDeadZone ==
    scorer = "vader" =>
        /\ category = "positive" <=> score >= 5
        /\ category = "negative" <=> score <= -5
        /\ category = "neutral" <=> (-5 < score /\ score < 5)
        /\ \A q \in Scores :
               q <= score => Rank(VaderCategory(q)) <= Rank(category)

C12_Witness == scorer = "vader" /\ score = 5 /\ category = "positive"

\* the term occurs in the text when case is ignored
Occurs(term, s) ==
    \E k \in 0..(Len(s) - Len(term)) :
        \A j \in 1..Len(term) : LowerChar(s[k + j]) = LowerChar(term[j])

\* C13: extract_mental_health_terms returns exactly the terms of the
\* vocabulary that occur in the text as case-insensitive substrings, in the
\* order of the vocabulary, and the empty list when none occurs.
C13_TermsFoundInVocabularyOrder ==
    tpc = "tagged" =>
        LET occurs(term) == Occurs(term, tag_text)
        IN  /\ found_terms = SelectSeq(vocabulary, occurs)
            /\ (\A k \in 1..Len(vocabulary) : ~occurs(vocabulary[k]))
                   => found_terms = <<>>

\* "stressAnxiety" holds two terms, reported anxiety first
C13_Witness ==
    /\ tpc = "tagged"
    /\ vocabulary = mental_health_terms
    /\ Len(found_terms) = 2
    /\ Head(tag_text) = "s"
    /\ found_terms[1] = mental_health_terms[2]
    /\ found_terms[2] = mental_health_terms[4]

FreshBatch(f) ==
    /\ HasIdColumn(f)
    /\ Len(f.rows) > 0
    /\ MissingId(f) = {}
    /\ Cardinality(IdsOf(f)) = Len(f.rows)
    /\ IdsOf(f) \cap StoredIds(before.committed) = {}

\* the rows whose list of terms is a string that is no well-formed list
NotAList(f) ==
    {i \in 1..Len(f.rows) :
        f.rows[i].mental_health_terms.kind \in {"malformed", "text"}}

SentimentRowsWithId(db, id) ==
    {i \in 1..Len(db.tweet_sentiment) : db.tweet_sentiment[i].tweet_id = id}

\* C15: the coercion of the list of terms never raises: in a batch with a
\* record whose mental_health_terms is a string that is no well-formed list,
\* the import completes with all rows and the list of that record is
\* persisted as the empty list.
C15_TermCoercionNeverRaises ==
    (Returned /\ CompleteHeader(csv_file) /\ FreshBatch(csv_file)
              /\ NotAList(csv_file) # {})
        => /\ error = "none"
           /\ ret = BatchSize
           /\ \A i \in NotAList(csv_file) :
                  \E k \in SentimentRowsWithId(committed, TweetIdOf(csv_file, i)) :
                      committed.tweet_sentiment[k].mental_health_terms
                          = JsonDumps(<<>>)

\* C16: flattening the author isolates a defect to its record: a record
\* whose user encoding is well-formed gets that structure's username, a
\* record whose user encoding is malformed gets the empty string, and every
\* row of the batch is kept in the frame of posts.
C16_AuthorDefectsIsolated ==
    (Returned /\ "user" \in csv_file.cols /\ "username" \notin csv_file.cols
              /\ step \notin {"columns", "terms"})
        => /\ Len(TweetsFrame(csv_file)) = BatchSize
           /\ \A i \in 1..BatchSize :
                  LET cell == csv_file.rows[i].user
                      author == TweetsFrame(csv_file)[i].username
                  IN  /\ cell.kind = "json" => author = cell.username
                      /\ cell.kind = "malformed" => author = ""

\* a counter holds an integer that is not negative
IsCount(cell) == Len(cell) = 1 /\ cell[1] \in Nat

\* C17: every row of the tweets table has a tweet_id and a cleaned_text that
\* are not null and counters that are integers of at least 0, and a post
\* whose counter is missing from the source is stored with the counter 0.
C17_TweetsRowsWellFormed ==
    /\ \A db \in {committed, conn} :
           \A i \in 1..Len(db.tweets) :
               /\ db.tweets[i].tweet_id # NaN
               /\ db.tweets[i].cleaned_text # NaN
               /\ IsCount(db.tweets[i].retweet_count)
               /\ IsCount(db.tweets[i].favorite_count)
    /\ (Returned /\ CompleteHeader(csv_file) /\ FreshBatch(csv_file)
                 /\ NotAList(csv_file) = {})
           => \A i \in 1..BatchSize :
                  csv_file.rows[i].retweet_count = <<>>
                      => \E k \in RowsWithId(committed, TweetIdOf(csv_file, i)) :
                             committed.tweets[k].retweet_count = <<0>>

\* the rows of process_tweet_file's input on which no scoring function raises
Scored(tweets) ==
    {i \in 1..Len(tweets) :
        ~tweets[i].polarity.raises /\ ~tweets[i].compound.raises}

\* C18: a scoring function that raises on one row's text costs that row
\* alone: every other row of the file is scored and written.
C18_ScoringFailureConfinedToRow ==
    (ppc = "returned" /\ Scored(json_file) # {})
        => /\ csv_written
           /\ Len(df) = Cardinality(Scored(json_file))
           /\ \A i \in Scored(json_file) :
                  \E k \in 1..Len(df) : df[k] = ProcessedRow(json_file[i])

\* the source names none of the sentiment columns
SentimentAbsent(f) ==
    f.cols \cap {"textblob_polarity", "textblob_category"} = {}

\* C19: a post whose sentiment columns are absent from the source is stored,
\* and neither the sentiment row written for it nor a sentiment row stored
\* for it carries a default score or a default category.
C19_NoFabricatedSentiment ==
    (Returned /\ SentimentAbsent(csv_file) /\ FreshBatch(csv_file)
              /\ step \notin {"columns", "terms", "tweets_df"})
        => \A i \in 1..BatchSize :
               /\ RowsWithId(committed, TweetIdOf(csv_file, i)) # {}
               /\ SentimentFrame(csv_file)[i].textblob_polarity = <<>>
               /\ SentimentFrame(csv_file)[i].textblob_category = NaN
               /\ \A k \in SentimentRowsWithId(committed, TweetIdOf(csv_file, i)) :
                      /\ committed.tweet_sentiment[k].textblob_polarity = <<>>
                      /\ committed.tweet_sentiment[k].textblob_category = NaN

\* the rows of the file that have no author
EmptyAuthor(f) ==
    {i \in 1..Len(f.rows) : UsernameOf(f, i) \in {"", NaN}}

\* the terms of the rows of the file that have no author
TermsOfEmptyAuthors(f) ==
    UNION {Range(JsonLoads(ConvertTerms(f.rows[i].mental_health_terms))) :
              i \in EmptyAuthor(f)}

\* C20: in a batch that is imported, the rows with an empty author get no
\* user_metrics row, and their terms are counted in the term table.
C20_EmptyAuthorsCountedInTerms ==
    (Returned /\ HasIdColumn(csv_file) /\ HasUsername(csv_file.cols)
              /\ AllColumns \ {"tweet_id", "username"} \subseteq csv_file.cols
              /\ FreshBatch(csv_file) /\ NotAList(csv_file) = {}
              /\ TermsOfEmptyAuthors(csv_file) # {})
        => /\ \A db \in {committed, conn} :
                  \A k \in 1..Len(db.user_metrics) :
                      db.user_metrics[k].username \notin {"", NaN}
           /\ \A t \in TermsOfEmptyAuthors(csv_file) :
                  OccurrenceCount(committed, t)
                      > OccurrenceCount(before.committed, t)

\* a batch that names every column and whose lists of terms are well-formed
WellFormedBatch(f) ==
    CompleteHeader(f) /\ FreshBatch(f) /\ NotAList(f) = {}

\* C21: the import of a batch adds, for every term, the number of its
\* occurrences in the batch's lists of terms to the persisted
\* occurrence_count (0 when the term was absent); a term the batch does not
\* hold keeps its count, and a term that had a row keeps its key and its
\* category.
C21_InsertOrIncrement ==
    (Returned /\ WellFormedBatch(csv_file))
        => /\ ret = BatchSize
           /\ \A t \in Terms :
                  OccurrenceCount(committed, t)
                      = OccurrenceCount(before.committed, t)
                            + CountOf(AllTerms(csv_file), t)
           /\ \A r \in before.committed.mental_health_terms :
                  \E r2 \in committed.mental_health_terms :
                      r2.term_text = r.term_text /\ r2.category = r.category

\* the rows of the file whose author is a
RowsOfAuthor(f, a) == {i \in 1..Len(f.rows) : UsernameOf(f, i) = a}

\* C22: for each author of an imported batch the persisted avg_engagement is
\* the mean over the author's rows of (retweet_count + favorite_count) / 2,
\* a missing counter counting for 0.
C22_AvgEngagementIsMeanOfRows ==
    (Returned /\ WellFormedBatch(csv_file))
        => \A a \in AuthorsOf(csv_file) :
               \E k \in MetricsRowsOf(committed, a) :
                   LET e == committed.user_metrics[k].avg_engagement
                       S == RowsOfAuthor(csv_file, a)
                   IN  /\ e.den # 0
                       /\ e.num * 2 * Cardinality(S)
                              = e.den * (SumOfCells(csv_file, S, "retweet_count")
                                         + SumOfCells(csv_file, S, "favorite_count"))

\* C28: for each author of an imported batch the user_metrics row counts the
\* batch's rows of that author in tweet_count and those of them whose flag
\* is set in mental_health_tweet_count, which never exceeds tweet_count.
C28_MetricsCountRows ==
    (Returned /\ CompleteHeader(csv_file) /\ NotAList(csv_file) = {}
              /\ BatchSize > 0
              /\ Cardinality(IdsOf(csv_file))
                     = BatchSize - Cardinality(MissingId(csv_file))
              /\ IdsOf(csv_file) \cap StoredIds(before.committed) = {})
        => \A a \in AuthorsOf(csv_file) :
               \E k \in MetricsRowsOf(committed, a) :
                   LET m == committed.user_metrics[k]
                       S == RowsOfAuthor(csv_file, a)
                   IN  /\ m.tweet_count = Cardinality(S)
                       /\ m.mental_health_tweet_count
                              = Cardinality({i \in S : FlagOf(csv_file, i) = 1})
                       /\ m.mental_health_tweet_count <= m.tweet_count

\* C23: import_processed_data returns an integer count for every input and
\* no fault leaves it: a call that is started returns, it returns 0 when the
\* source is unreadable or the store rejects a write, and for an unreadable
\* source every table is what it was when the call started.
C23_FailuresSurfaceAsCount ==
    /\ pc = "selected" => ENABLED ImportProcessedData
    /\ Returned =>
           /\ ret \in Nat
           /\ error # "none" => ret = 0
           /\ step = "read_csv" =>
                  /\ ret = 0
                  /\ committed = before.committed
                  /\ conn = before.conn

\* an unreadable file was handed in and 0 came back
C23_Witness ==
    /\ Returned
    /\ csv_file = UnreadableFile
    /\ step = "read_csv"
    /\ error # "none"
    /\ ret = 0

\* a letter or a digit
IsAlnum(c) == IsWord(c) /\ c # "_"

\* C24: the output of clean_tweet holds only letters and digits separated by
\* single spaces, with no whitespace at either end.
C24_OnlyAlphanumericsAndSingleSpaces ==
    (cpc \in {"cleaned", "recleaned"})
        => /\ \A i \in 1..Len(cleaned) : IsAlnum(cleaned[i]) \/ cleaned[i] = " "
           /\ \A i \in 1..(Len(cleaned) - 1) :
                  ~(cleaned[i] = " " /\ cleaned[i + 1] = " ")
           /\ cleaned # <<>> =>
                  cleaned[1] # " " /\ cleaned[Len(cleaned)] # " "

TweetsOf(keyword) ==
    {k \in 1..Len(all_tweets) : all_tweets[k].query = keyword}

\* C29: for every keyword at most tweets_per_keyword tweets are collected,
\* and every collected tweet carries the keyword it was found under as
\* search_keyword.
C29_AtMostTargetPerKeyword ==
    /\ \A i \in 1..Len(Keywords) :
           Cardinality(TweetsOf(Keywords[i])) <= tweets_per_keyword
    /\ \A k \in 1..Len(all_tweets) :
           all_tweets[k].search_keyword = all_tweets[k].query

\* C30: whatever the API answers, the collection ends: for each keyword the
\* pagination loop is left after finitely many requests.
C30_PaginationTerminates == <>(kpc = "done")
====
